---- MODULE Spec2Model ----
(***************************************************************************)
(* The two release scripts of .github/scripts: extract_changelog.py (the   *)
(* extractor) and update_changelog.py (the updater), as one state machine  *)
(* over the files they share.                                              *)
(*                                                                         *)
(* Text is a sequence of tokens.  A token is one character of the text,    *)
(* except that the two literals the scripts' patterns look for are single  *)
(* tokens: HEADER is the four characters "## [" and UNRELEASED is the      *)
(* fifteen characters "## [Unreleased]" (which begin with "## [").  The    *)
(* literal "## [" cannot overlap itself, so a text has one tokenisation.   *)
(***************************************************************************)
EXTENDS Integers, Sequences, FiniteSets, TLC

\* Longest changelog document of Init, in tokens.
MaxLen == 4

UNRELEASED == "## [Unreleased]"
HEADER == "## ["
NL == "\n"
SP == " "
\* backslash-n and backslash-1 as they stand in a replacement template
ESC_NL == "\\n"
ESC_G1 == "\\1"

\* the characters a changelog of Init is made of
DocChars == {UNRELEASED, HEADER, NL, "x"}
Dates == {"2026-11-06"}

RECURSIVE SeqsUpTo(_, _)
SeqsUpTo(S, n) ==
  IF n = 0 THEN {<<>>}
  ELSE LET shorter == SeqsUpTo(S, n - 1)
       IN shorter \cup {Append(s, c) : s \in {t \in shorter : Len(t) = n - 1}, c \in S}

Documents == SeqsUpTo(DocChars, MaxLen)

(***************************************************************************)
(* Python's str and re primitives on token sequences                       *)
(***************************************************************************)

\* \s of re, and the characters str.strip() removes
IsSpace(c) == c \in {NL, SP}

\* the literal pattern "## \[" at position p (a lookahead or a match start)
HeaderAt(s, p) == p <= Len(s) /\ s[p] \in {HEADER, UNRELEASED}

\* "$" without re.MULTILINE: the end of the text, or before its last newline
DollarAt(s, p) == p = Len(s) + 1 \/ (p = Len(s) /\ s[p] = NL)

\* the positions \s* can stop at when it starts at p
SpaceEnds(s, p) == {q \in p..(Len(s) + 1) : \A k \in p..(q - 1) : IsSpace(s[k])}

\* str.strip()
RECURSIVE LStrip(_)
LStrip(s) == IF s # <<>> /\ IsSpace(Head(s)) THEN LStrip(Tail(s)) ELSE s
RECURSIVE RStrip(_)
RStrip(s) ==
  IF s # <<>> /\ IsSpace(s[Len(s)]) THEN RStrip(SubSeq(s, 1, Len(s) - 1)) ELSE s
Strip(s) == RStrip(LStrip(s))

NoMatch == [found |-> FALSE, start |-> 0, end |-> 0, group1 |-> <<>>]

(***************************************************************************)
(* ## \[Unreleased\]\s*(.*?)\s*(?=## \[)      (updater,   withDollar FALSE) *)
(* ## \[Unreleased\]\s*(.*?)\s*(?=## \[|$)    (extractor, withDollar TRUE)  *)
(* both with re.DOTALL, tried at position i.  A way to match is <<a, g, b>>:*)
(* the first \s* ends at a, the group at g, the second \s* at b, and the    *)
(* lookahead holds at b.  The backtracking matcher takes the first way in   *)
(* its order of trial: \s* greedy (longest first), .*? lazy (shortest       *)
(* first).                                                                  *)
(***************************************************************************)
\* (mutant) the lookahead without its "$" alternative
LookaheadHeaderOnly(s, p, withDollar) == HeaderAt(s, p)

Lookahead(s, p, withDollar) == HeaderAt(s, p) \/ (withDollar /\ DollarAt(s, p))

Ways(s, i, withDollar) ==
  UNION {UNION {{<<a, g, b>> : b \in {q \in SpaceEnds(s, g) : Lookahead(s, q, withDollar)}}
                : g \in a..(Len(s) + 1)}
         : a \in SpaceEnds(s, i + 1)}

TriedBefore(w, v) ==
  \/ w[1] > v[1]
  \/ w[1] = v[1] /\ w[2] < v[2]
  \/ w[1] = v[1] /\ w[2] = v[2] /\ w[3] >= v[3]

MatchAt(s, i, withDollar) ==
  IF i > Len(s) \/ s[i] # UNRELEASED \/ Ways(s, i, withDollar) = {} THEN NoMatch
  ELSE LET ways == Ways(s, i, withDollar)
           w == CHOOSE x \in ways : \A y \in ways : TriedBefore(x, y)
       IN [found |-> TRUE, start |-> i, end |-> w[3],
           group1 |-> SubSeq(s, w[1], w[2] - 1)]

\* re.search from position from: the leftmost match
RECURSIVE Search(_, _, _)
Search(s, from, withDollar) ==
  IF from > Len(s) THEN NoMatch
  ELSE LET m == MatchAt(s, from, withDollar)
       IN IF m.found THEN m ELSE Search(s, from + 1, withDollar)

(***************************************************************************)
(* update_changelog.py                                                     *)
(***************************************************************************)

\* "## [Unreleased]\n\n## [{}] - {}\n\n".format(version, today)
EmptyReplacement(version, today) ==
  <<UNRELEASED, NL, NL, HEADER>> \o version \o <<"]", SP, "-", SP, today, NL, NL>>

\* (mutant) the new version header put below the unreleased body
replace_unreleased_below(m, version, today) ==
  <<UNRELEASED, NL, NL>> \o Strip(m.group1)
    \o <<NL, NL, HEADER>> \o version \o <<"]", SP, "-", SP, today, NL, NL>>

\* the nested function replace_unreleased(match)
replace_unreleased(m, version, today) ==
  LET unreleased_content == Strip(m.group1)
  IN IF unreleased_content # <<>>
     THEN EmptyReplacement(version, today) \o unreleased_content \o <<NL, NL>>
     ELSE EmptyReplacement(version, today)

\* re.sub(unreleased_pattern, replace_unreleased, content, flags=re.DOTALL):
\* every match from position from on is replaced, the text between is kept
RECURSIVE SubUnreleased(_, _, _, _)
SubUnreleased(s, from, version, today) ==
  LET m == Search(s, from, FALSE)
  IN IF ~m.found THEN SubSeq(s, from, Len(s))
     ELSE SubSeq(s, from, m.start - 1)
            \o replace_unreleased(m, version, today)
            \o SubUnreleased(s, m.end, version, today)

\* '## [Unreleased]\\n\\n## [{}] - {}\\n\\n\\1'.format(version, today)
Template(version, today) ==
  <<UNRELEASED, ESC_NL, ESC_NL, HEADER>> \o version
    \o <<"]", SP, "-", SP, today, ESC_NL, ESC_NL, ESC_G1>>

TemplateError == [ok |-> FALSE, text |-> <<>>]

\* re's expansion of a replacement template: backslash-n is a newline,
\* backslash-1 is group 1, and backslash-1 before another digit is a
\* reference to group 11, which the pattern does not have (re.error)
RECURSIVE Expand(_, _)
Expand(t, group1) ==
  IF t = <<>> THEN [ok |-> TRUE, text |-> <<>>]
  ELSE IF Head(t) = ESC_G1 /\ Len(t) > 1 /\ t[2] = "1" THEN TemplateError
  ELSE LET rest == Expand(Tail(t), group1)
           this == CASE Head(t) = ESC_NL -> <<NL>>
                     [] Head(t) = ESC_G1 -> group1
                     [] OTHER -> <<Head(t)>>
       IN IF rest.ok THEN [ok |-> TRUE, text |-> this \o rest.text] ELSE TemplateError

\* the position of the first "## [" of s, or 0
FirstHeader(s) ==
  IF \E p \in 1..Len(s) : HeaderAt(s, p)
  THEN CHOOSE p \in 1..Len(s) : HeaderAt(s, p) /\ \A q \in 1..(p - 1) : ~HeaderAt(s, q)
  ELSE 0

\* re.sub(r'(## \[)', template, content, count=1): the template is compiled
\* first, then the first "## [" (if any) is replaced by its expansion.  A
\* match inside the token UNRELEASED leaves the rest of the token in place,
\* and group 1, which is put back last, joins it again.
SubFirstHeader(s, version, today) ==
  LET e == Expand(Template(version, today), <<HEADER>>)
      p == FirstHeader(s)
      n == Len(e.text)
  IN IF ~e.ok THEN TemplateError
     ELSE IF p = 0 THEN [ok |-> TRUE, text |-> s]
     ELSE [ok |-> TRUE,
           text |-> SubSeq(s, 1, p - 1) \o SubSeq(e.text, 1, n - 1) \o SubSeq(s, p, Len(s))]

\* the text update_changelog computes from content (lines 23-46), or the
\* exception it raises
UpdatedContent(content, version, today) ==
  LET updated_content == SubUnreleased(content, 1, version, today)
  IN IF updated_content = content
     THEN SubFirstHeader(content, version, today)
     ELSE [ok |-> TRUE, text |-> updated_content]

(***************************************************************************)
(* The state: the files, and the variables of the two processes            *)
(***************************************************************************)
VARIABLES
  changelog,          \* CHANGELOG.md: [stat, data]
  release_notes,      \* the text of release_notes.txt
  github_output,      \* the text of the file GITHUB_OUTPUT names
  upc,                \* updater: where the process is
  argv,               \* updater: sys.argv[1:]
  VERSION,            \* updater: os.getenv('VERSION')
  version,            \* updater: main's version, update_changelog's parameter
  today,              \* updater: update_changelog's today
  content,            \* updater: update_changelog's content
  success,            \* updater: what update_changelog returned
  uexit,              \* updater: the exit status, once upc = "exited"
  epc,                \* extractor: where the process is
  GITHUB_OUTPUT,      \* extractor: os.getenv('GITHUB_OUTPUT')
  report,             \* extractor: what extract_unreleased_content printed
  unreleased_content, \* extractor: what extract_unreleased_content returned
  release_content,    \* extractor: main's release_content
  written,            \* extractor: what write_release_notes returned
  eexit               \* extractor: the exit status, once epc = "exited"

files == <<changelog, release_notes, github_output>>
updater == <<upc, argv, VERSION, version, today, content, success, uexit>>
extractor ==
  <<epc, GITHUB_OUTPUT, report, unreleased_content, release_content, written, eexit>>
vars == <<files, updater, extractor>>

\* what is in release_notes.txt and in the CI output file before the run
StaleNotes == <<"stale notes">>
EarlierOutput == <<"earlier=output", NL>>

\* Python's None and a str, as one kind of value
None == [isNone |-> TRUE, str |-> <<>>]
Str(s) == [isNone |-> FALSE, str |-> s]
\* the truth value of an optional str: None and "" are false
Truthy(o) == ~o.isNone /\ o.str # <<>>

\* the version strings the updater is run with
ArgVersions ==
  {<<>>, <<"1">>, <<"v">>, <<"v", "1">>, <<"v", "v", "1">>, <<"1", "v">>,
   <<ESC_G1>>, <<"v", ESC_G1>>, <<ESC_G1, "1">>}
Argvs == {<<>>} \cup {<<v>> : v \in ArgVersions}
EnvVersions == {None, Str(<<>>), Str(<<"v", "v">>)}
\* the command lines and environments the updater is run with: an argument
\* alone, VERSION alone or neither, and both
Invocations ==
  (Argvs \X {None}) \cup ({<<>>} \X EnvVersions)
     \cup ({<<<<"1">>>>, <<<<"v", "1">>>>} \X {Str(<<"v", "v">>)})
\* the values of GITHUB_OUTPUT: unset, empty, a path
OutputPaths == {None, Str(<<>>), Str(<<"/tmp/github_output">>)}
\* how writing a file ends: written; open() raised and the file is as it
\* was; open() truncated the file and write() raised
WriteOutcomes == {"written", "open failed", "write failed"}

Init ==
  /\ changelog \in [stat : {"present"}, data : Documents]
                     \cup [stat : {"missing", "unreadable"}, data : {<<>>}]
  /\ release_notes = StaleNotes
  /\ github_output = EarlierOutput
  /\ upc = "not run"
  /\ argv = <<>>
  /\ VERSION = None
  /\ version = <<>>
  /\ today = ""
  /\ content = <<>>
  /\ success = FALSE
  /\ uexit = 0
  /\ epc = "not run"
  /\ GITHUB_OUTPUT = None
  /\ report = ""
  /\ unreleased_content = None
  /\ release_content = <<>>
  /\ written = FALSE
  /\ eexit = 0

\* what open(path, 'w') and f.write(text) leave in a file that held old
Written(old, text, outcome) ==
  CASE outcome = "written" -> text
    [] outcome = "open failed" -> old
    [] outcome = "write failed" -> <<>>

(***************************************************************************)
(* update_changelog.py, the process                                        *)
(***************************************************************************)

\* The CI job runs its steps one after the other and stops at the first step
\* that exits with a non-zero status.  A job runs each script at most once; the
\* extractor reads the changelog only, so the model runs it by itself or after
\* the updater (which shows it every changelog the updater can leave).
UpdaterMayStart == upc = "not run" /\ epc = "not run"
ExtractorMayStart ==
  epc = "not run" /\ (upc = "not run" \/ (upc = "exited" /\ uexit = 0))

\* (mutant) the prefix is left on the version
StripVKept(v) == v

\* version.startswith('v') and version[1:]
StripV(v) == IF v # <<>> /\ Head(v) = "v" THEN Tail(v) ELSE v

\* main, lines 62-77: the version from the argument or from VERSION
UpdaterMain ==
  /\ UpdaterMayStart
  /\ \E inv \in Invocations :
       LET a == inv[1]
           e == inv[2]
       IN
       /\ argv' = a
       /\ VERSION' = e
       /\ IF Len(a) > 0
          THEN version' = StripV(a[1]) /\ upc' = "update_changelog" /\ uexit' = uexit
          ELSE IF Truthy(e)
          THEN version' = StripV(e.str) /\ upc' = "update_changelog" /\ uexit' = uexit
          ELSE version' = version /\ upc' = "exited" /\ uexit' = 1
  /\ UNCHANGED <<files, today, content, success, extractor>>

\* update_changelog(version), lines 15-57
UpdateChangelog ==
  /\ upc = "update_changelog"
  /\ upc' = "returned"
  /\ \E d \in Dates, outcome \in WriteOutcomes :
       /\ today' = d
       /\ IF changelog.stat # "present"
          THEN success' = FALSE /\ UNCHANGED <<content, changelog>>
          ELSE /\ content' = changelog.data
               /\ LET u == UpdatedContent(changelog.data, version, d)
                  IN IF ~u.ok
                     THEN success' = FALSE /\ UNCHANGED changelog
                     ELSE /\ success' = (outcome = "written")
                          /\ changelog' =
                               [stat |-> "present",
                                data |-> Written(changelog.data, u.text, outcome)]
  /\ UNCHANGED <<release_notes, github_output, argv, VERSION, version, uexit, extractor>>

\* (mutant) main without its "if not success: sys.exit(1)"
UpdaterExitUnchecked ==
  /\ upc = "returned"
  /\ upc' = "exited"
  /\ uexit' = 0
  /\ UNCHANGED <<files, argv, VERSION, version, today, content, success, extractor>>

\* main, lines 79-82
UpdaterExit ==
  /\ upc = "returned"
  /\ upc' = "exited"
  /\ uexit' = IF success THEN 0 ELSE 1
  /\ UNCHANGED <<files, argv, VERSION, version, today, content, success, extractor>>

(***************************************************************************)
(* extract_changelog.py, the process                                       *)
(***************************************************************************)

default_content == <<"This release includes various improvements and bug fixes.">>

\* extract_unreleased_content(), lines 15-45: what it prints and returns
ExtractResult(log) ==
  IF log.stat = "missing" THEN [report |-> "file not found", value |-> None]
  ELSE IF log.stat = "unreadable" THEN [report |-> "read error", value |-> None]
  ELSE LET unreleased_match == Search(log.data, 1, TRUE)
       IN IF unreleased_match.found
          THEN IF Strip(unreleased_match.group1) # <<>>
               THEN [report |-> "found", value |-> Str(Strip(unreleased_match.group1))]
               ELSE [report |-> "empty", value |-> None]
          ELSE [report |-> "not found", value |-> None]

\* main, line 66
ExtractUnreleasedContent ==
  /\ ExtractorMayStart
  /\ epc' = "extracted"
  /\ report' = ExtractResult(changelog).report
  /\ unreleased_content' = ExtractResult(changelog).value
  /\ UNCHANGED <<files, updater, GITHUB_OUTPUT, release_content, written, eexit>>

\* the record main appends to the CI output file, line 85
OutputRecord(text) == <<"release-notes<<EOF", NL>> \o text \o <<NL, "EOF", NL>>

\* main, lines 69-72: the content or the fallback, and write_release_notes
WriteReleaseNotes ==
  /\ epc = "extracted"
  /\ epc' = "notes written"
  /\ LET chosen == IF Truthy(unreleased_content)
                   THEN unreleased_content.str ELSE default_content
     IN /\ release_content' = chosen
        /\ \E outcome \in WriteOutcomes :
             /\ release_notes' = Written(release_notes, chosen, outcome)
             /\ written' = (outcome = "written")
  /\ UNCHANGED <<changelog, github_output, updater, GITHUB_OUTPUT, report,
                 unreleased_content, eexit>>

\* (mutant) main with the CI output step outside "if success:" and no
\* "else: sys.exit(1)"
ExtractorExitUnchecked ==
  /\ epc = "notes written"
  /\ epc' = "exited"
  /\ \E g \in OutputPaths, appended \in BOOLEAN :
       /\ GITHUB_OUTPUT' = g
       /\ IF ~Truthy(g)
          THEN eexit' = 0 /\ UNCHANGED github_output
          ELSE /\ github_output' =
                    IF appended THEN github_output \o OutputRecord(release_content)
                    ELSE github_output
               /\ eexit' = IF appended THEN 0 ELSE 1
  /\ UNCHANGED <<changelog, release_notes, updater, report,
                 unreleased_content, release_content, written>>

\* main, lines 74-91: the CI output and the exit status
ExtractorExit ==
  /\ epc = "notes written"
  /\ epc' = "exited"
  /\ IF ~written
     THEN eexit' = 1 /\ UNCHANGED <<github_output, GITHUB_OUTPUT>>
     ELSE \E g \in OutputPaths, appended \in BOOLEAN :
            /\ GITHUB_OUTPUT' = g
            /\ IF ~Truthy(g)
               THEN eexit' = 0 /\ UNCHANGED github_output
               ELSE /\ github_output' =
                         IF appended THEN github_output \o OutputRecord(release_content)
                         ELSE github_output
                    /\ eexit' = IF appended THEN 0 ELSE 1
  /\ UNCHANGED <<changelog, release_notes, updater, report,
                 unreleased_content, release_content, written>>

Next ==
  \/ UpdaterMain
  \/ UpdateChangelog
  \/ UpdaterExit
  \/ ExtractUnreleasedContent
  \/ WriteReleaseNotes
  \/ ExtractorExit

Spec == Init /\ [][Next]_vars

(***************************************************************************)
(* The vocabulary of the claims: a changelog's sections, told without the  *)
(* scripts' patterns                                                       *)
(***************************************************************************)

\* the positions of s where c stands
Positions(s, c) == {k \in 1..Len(s) : s[k] = c}
\* the position of the first "## [Unreleased]" header of s, or 0
FirstUnreleased(s) ==
  IF Positions(s, UNRELEASED) = {} THEN 0
  ELSE CHOOSE k \in Positions(s, UNRELEASED) : \A j \in Positions(s, UNRELEASED) : k <= j
\* the position of the first "## [" header after position i, or 0
NextHeader(s, i) ==
  LET later == {k \in (i + 1)..Len(s) : s[k] \in {HEADER, UNRELEASED}}
  IN IF later = {} THEN 0 ELSE CHOOSE k \in later : \A j \in later : k <= j
\* the end of the section whose header is at i: the next header or the end
SectionEnd(s, i) == IF NextHeader(s, i) = 0 THEN Len(s) + 1 ELSE NextHeader(s, i)
\* the body of the section whose header is at i, trimmed
RECURSIVE Trimmed(_)
Trimmed(s) ==
  IF s = <<>> THEN s
  ELSE IF s[1] \in {NL, SP} THEN Trimmed(SubSeq(s, 2, Len(s)))
  ELSE IF s[Len(s)] \in {NL, SP} THEN Trimmed(SubSeq(s, 1, Len(s) - 1))
  ELSE s
Body(s, i) == Trimmed(SubSeq(s, i + 1, SectionEnd(s, i) - 1))
\* t is a part of s
Contains(s, t) == \E k \in 0..(Len(s) - Len(t)) : SubSeq(s, k + 1, k + Len(t)) = t
\* the last n characters of s
Suffix(s, n) == SubSeq(s, Len(s) - n + 1, Len(s))
\* the header text "## [<v>] - <d>"
HeaderText(v, d) == <<HEADER>> \o v \o <<"]", SP, "-", SP, d>>
\* an empty Unreleased section and, below it, "## [<v>] - <d>"
ReleaseBlock(v, d) == <<UNRELEASED, NL, NL>> \o HeaderText(v, d) \o <<NL, NL>>
\* the body as it stands under the new header
Released(body) == IF body = <<>> THEN <<>> ELSE body \o <<NL, NL>>

\* update_changelog returned True: content is the document it read, the
\* changelog holds the document it wrote
UpdaterSucceeded == upc \in {"returned", "exited"} /\ success
\* the extractor has run write_release_notes, and the write succeeded
NotesWritten == epc \in {"notes written", "exited"} /\ written

(***************************************************************************)
(* The claims                                                              *)
(***************************************************************************)

\* C1: when the first "## [Unreleased]" header of the document read is
\* followed later by a "## [" header, the document a successful updater run
\* writes is: the text before that header, an empty Unreleased section, the
\* header "## [<version>] - <today>", the trimmed unreleased body (if any),
\* and the original document from the next "## [" header on, unchanged.
C1_UnreleasedPromoted ==
  LET i == FirstUnreleased(content)
      j == NextHeader(content, i)
  IN (UpdaterSucceeded /\ i # 0 /\ j # 0) =>
       changelog.data = SubSeq(content, 1, i - 1)
                          \o ReleaseBlock(version, today)
                          \o Released(Body(content, i))
                          \o SubSeq(content, j, Len(content))

\* C2: when the document read has exactly one "## [Unreleased]" section
\* (followed by a version section or running to the end), the document a
\* successful updater run writes has exactly one "## [Unreleased]" section,
\* that section is empty, and the former unreleased body stands under the
\* new "## [<version>] - <today>" header.
C2_OneEmptyUnreleased ==
  LET i == FirstUnreleased(content)
      k == FirstUnreleased(changelog.data)
  IN (UpdaterSucceeded /\ Cardinality(Positions(content, UNRELEASED)) = 1) =>
       /\ Cardinality(Positions(changelog.data, UNRELEASED)) = 1
       /\ Body(changelog.data, k) = <<>>
       /\ Contains(changelog.data,
                   HeaderText(version, today) \o <<NL, NL>> \o Released(Body(content, i)))

\* the content main resolves for a changelog: the trimmed text between the
\* first "## [Unreleased]" header and the next "## [" header or the end when
\* there is such text, the fallback sentence otherwise
Resolved(log) ==
  LET i == FirstUnreleased(log.data)
  IN IF log.stat = "present" /\ i # 0 /\ Body(log.data, i) # <<>>
     THEN Body(log.data, i)
     ELSE default_content

\* C3: after an extractor run whose write of the output file succeeded, the
\* file holds exactly the resolved content: the trimmed unreleased text when
\* there is some, and the fallback sentence when the section is empty, when
\* there is no "## [Unreleased]" header, and when the changelog is not found.
C3_NotesAreResolvedContent ==
  LET i == FirstUnreleased(changelog.data)
  IN NotesWritten =>
       /\ release_notes = Resolved(changelog)
       /\ (changelog.stat = "missing") =>
            (report = "file not found" /\ release_notes = default_content)
       /\ (changelog.stat = "present" /\ i = 0) =>
            (report = "not found" /\ release_notes = default_content)
       /\ (changelog.stat = "present" /\ i # 0 /\ Body(changelog.data, i) = <<>>) =>
            (report = "empty" /\ release_notes = default_content)

\* C3, its case: a section that runs to the end of the file, whose text had
\* whitespace to trim, was written to the output file
C3_Witness ==
  LET i == FirstUnreleased(changelog.data)
  IN /\ NotesWritten
     /\ report = "found"
     /\ i # 0
     /\ NextHeader(changelog.data, i) = 0
     /\ Body(changelog.data, i) # SubSeq(changelog.data, i + 1, Len(changelog.data))
     /\ release_notes = Body(changelog.data, i)

\* C4: when the document read has no "## [Unreleased]" header and at least
\* one "## [" header, the document a successful updater run writes is the
\* original with one block, "## [Unreleased]" and "## [<version>] - <today>",
\* inserted before the first "## [" header, and nothing else changed.
C4_BlockInsertedBeforeFirstHeader ==
  LET p == NextHeader(content, 0)
  IN (UpdaterSucceeded /\ FirstUnreleased(content) = 0 /\ p # 0) =>
       changelog.data = SubSeq(content, 1, p - 1)
                          \o ReleaseBlock(version, today)
                          \o SubSeq(content, p, Len(content))

\* the updater has read its command line
VersionRead == upc \in {"update_changelog", "returned", "exited"} /\ argv # <<>>

C6_ExtractorExitStatus ==
  /\ (github_output # EarlierOutput) =>
       /\ epc = "exited" /\ written /\ Truthy(GITHUB_OUTPUT) /\ eexit = 0
       /\ github_output = EarlierOutput \o OutputRecord(release_content)
  /\ (epc = "exited") =>
       /\ eexit \in {0, 1}
       /\ eexit = 1 <=> (~written \/ (Truthy(GITHUB_OUTPUT) /\ github_output = EarlierOutput))
       /\ (written /\ changelog.stat = "missing" /\ ~Truthy(GITHUB_OUTPUT)) => eexit = 0
  /\ (epc # "not run" /\ ~NotesWritten) => github_output = EarlierOutput

\* C6, its case: the output file was written, the append failed, exit 1
C6_Witness ==
  /\ epc = "exited"
  /\ written
  /\ Truthy(GITHUB_OUTPUT)
  /\ github_output = EarlierOutput
  /\ eexit = 1

\* C7: if the changelog cannot be read, update_changelog writes nothing (the
\* file is neither created nor changed) and returns failure, and the process
\* exits with status 1; with no argument and no VERSION the process exits
\* with status 1 and update_changelog is never called; an argument is used
\* whatever VERSION holds.
C7_UpdaterFailure ==
  [][/\ (upc = "update_changelog" /\ changelog.stat # "present") =>
          (upc' = "returned" /\ ~success' /\ changelog' = changelog)
     /\ (upc = "returned" /\ ~success) =>
          (upc' = "exited" /\ uexit' = 1 /\ changelog' = changelog)
     /\ (upc = "not run" /\ upc' # "not run" /\ argv' = <<>> /\ ~Truthy(VERSION')) =>
          (upc' = "exited" /\ uexit' = 1 /\ changelog' = changelog /\ content' = content)
     /\ (upc = "not run" /\ upc' # "not run" /\ argv' # <<>>) =>
          /\ upc' = "update_changelog"
          /\ version' = argv'[1] \/ <<"v">> \o version' = argv'[1]
     /\ (upc = "exited") => upc' = "exited"
    ]_vars

\* C7, its case: the changelog was missing, an argument was given while
\* VERSION was set, and the process has exited with status 1
C7_Witness ==
  /\ upc = "exited"
  /\ changelog.stat = "missing"
  /\ argv # <<>>
  /\ Truthy(VERSION)
  /\ uexit = 1

\* C8: only the first occurrence is modified.  When the document read has
\* more than one "## [Unreleased]" header, the document written is the
\* original with the first Unreleased section alone rewritten; when the
\* updater falls back to inserting before a "## [" header, the text before
\* the first "## [" header and the text from it on are as they were, and one
\* "## [Unreleased]" header was added.
C8_OnlyFirstOccurrence ==
  LET i == FirstUnreleased(content)
      j == NextHeader(content, i)
      p == NextHeader(content, 0)
  IN UpdaterSucceeded =>
       /\ (Cardinality(Positions(content, UNRELEASED)) > 1) =>
            changelog.data = SubSeq(content, 1, i - 1)
                               \o ReleaseBlock(version, today)
                               \o Released(Body(content, i))
                               \o SubSeq(content, j, Len(content))
       /\ (p # 0 /\ (i = 0 \/ j = 0)) =>
            /\ SubSeq(changelog.data, 1, p - 1) = SubSeq(content, 1, p - 1)
            /\ Suffix(changelog.data, Len(content) - p + 1) = SubSeq(content, p, Len(content))
            /\ Cardinality(Positions(changelog.data, UNRELEASED))
                 = Cardinality(Positions(content, UNRELEASED)) + 1

\* C9: whenever update_changelog returns success for version V, the document
\* it wrote has the header "## [V] - <today>" with a "## [Unreleased]" header
\* directly above it, whatever the document read was.
C9_SuccessWritesRelease ==
  UpdaterSucceeded =>
    Contains(changelog.data, <<UNRELEASED, NL, NL>> \o HeaderText(version, today))

\* C10: after a successful updater run, the extractor finds no body in the
\* rewritten document (it reports an empty Unreleased section or none), and
\* the release notes it writes are the fallback sentence.
C10_NothingExtractedAfterUpdate ==
  (UpdaterSucceeded /\ epc # "not run") =>
    /\ unreleased_content = None
    /\ report \in {"empty", "not found"}
    /\ NotesWritten => release_notes = default_content

\* C10, its case: the updater released a section that had a body, and the
\* extractor, run after it, reported an empty section and wrote the fallback
C10_Witness ==
  /\ UpdaterSucceeded
  /\ FirstUnreleased(content) # 0
  /\ Body(content, FirstUnreleased(content)) # <<>>
  /\ Contains(changelog.data, Body(content, FirstUnreleased(content)))
  /\ epc = "exited"
  /\ report = "empty"
  /\ written
  /\ release_notes = default_content

====
